---- MODULE Spec2Model ----
(***************************************************************************)
(* A model of open3d::visualization::gui::TreeView (TreeView.cpp): the     *)
(* item store (AddItem, RemoveItem, the id2item_ lookup table, the         *)
(* process-wide id counter), the selection state, and the Draw pass that   *)
(* walks the tree, records an activated leaf and calls the listener.       *)
(*                                                                         *)
(* Items live in std::list nodes; a node is modelled by a heap address     *)
(* (address 0 is the root_ member, a removed node's address is   *)
(* given out again), so an item's address and its id are different things. *)
(* RemoveItem and Draw are recursive; each is modelled by its call stack   *)
(* and advances one frame step at a time. Nothing else runs while a        *)
(* removal or a walk is in progress (the widget is single threaded); the   *)
(* listener, called at the end of Draw, may call the public operations.    *)
(***************************************************************************)
EXTENDS Integers, Sequences, FiniteSets, TLC

\* Bounds of the model.
MaxIds == 4         \* g_next_id stops at MaxIds: ids 0 .. MaxIds-1 are issued

Labels == {"A"}                 \* the texts passed to AddItem
NoId == -1                      \* Item::id and selected_id_ initialiser
Null == -1                      \* nullptr
RootAddr == 0                   \* &impl_->root_
ListAddrs == 1..MaxIds          \* addresses of std::list nodes
IdInputs == (-2)..MaxIds        \* ItemId arguments tried: negative, issued, never issued

VARIABLES
    g_next_id,          \* TreeView::Impl::g_next_id (static, shared by every TreeView)
    constructed,        \* TreeView() has run for the TreeView modelled
    items,              \* address -> Item: root_ and the list nodes below it
    id2item_,           \* ItemId -> address
    selected_id_,
    on_value_changed_,  \* a listener is registered
    rm_stack,           \* the frames of the RemoveItem call in progress
    rm_pre,             \* the store as the outermost RemoveItem found it
    draw,               \* the Draw call in progress
    issued,             \* every id handed out so far, in order of the calls
    added,              \* the argument and result of AddItem, right after it
    root_removed        \* RemoveItem has been called with the root's id

vars == <<g_next_id, constructed, items, id2item_, selected_id_,
          on_value_changed_, rm_stack, rm_pre, draw, issued, added,
          root_removed>>

\* struct Item
Item(id, text, parent) ==
    [id |-> id, text |-> text, parent |-> parent, children |-> <<>>]

NoSnap == [item_id |-> NoId, items |-> <<>>, id2item |-> <<>>]

NoAdd == [parent_id |-> NoId, id |-> NoId]

\* The Draw call: its position (phase, and stack: the walk's frames), its
\* local new_selection, and what the pass has done so far: the value of
\* selected_id_ it started with, the Items drawn, the ones drawn with the
\* selection rectangle, the ones ImGui reported a click on, whether one of
\* those had no children, the calls of the listener and their arguments;
\* closed: the Items with children for which TreeNodeEx returned false.
IdleDraw ==
    [phase |-> "idle", stack |-> <<>>, new_selection |-> Null,
     start_sel |-> NoId, visited |-> <<>>, closed |-> {}, highlighted |-> {},
     clicked |-> {}, leaf_clicked |-> FALSE, calls |-> 0, args |-> <<>>]

Init ==
    /\ g_next_id = 0
    /\ constructed = FALSE
    /\ items = <<>>
    /\ id2item_ = <<>>
    /\ selected_id_ = NoId
    /\ on_value_changed_ = FALSE
    /\ rm_stack = <<>>
    /\ rm_pre = NoSnap
    /\ draw = IdleDraw
    /\ issued = <<>>
    /\ added = NoAdd
    /\ root_removed = FALSE

\* Public operations callable while the walk of Draw is going on
CanCallAnytime == rm_stack = <<>>

\* A public operation can be called when no call is in progress, or from
\* the listener that Draw is calling.
CanCall == rm_stack = <<>> /\ draw.phase \in {"idle", "listener"}

\* An id taken from the size of the lookup table
NextIdTableSize == Cardinality(DOMAIN id2item_)

\* The id a new Item or root gets: g_next_id++ yields the old value.
NextId == g_next_id

\* The address of a newly allocated list node: the lowest one not in use.
NewAddr ==
    CHOOSE a \in ListAddrs :
        /\ a \notin DOMAIN items
        /\ \A b \in ListAddrs : b < a => b \in DOMAIN items

\* std::stringstream s; s << text << "##" << item.id
ItemText(text, id) == text \o "##" \o ToString(id)

\* TreeView::TreeView
Construct ==
    /\ CanCall /\ draw.phase = "idle"
    /\ ~constructed
    /\ g_next_id < MaxIds
    /\ LET id == NextId IN
        /\ g_next_id' = g_next_id + 1
        /\ items' = (RootAddr :> Item(id, "", Null))
        /\ id2item_' = (id :> RootAddr)
        /\ issued' = Append(issued, id)
    /\ constructed' = TRUE
    /\ added' = NoAdd
    /\ UNCHANGED root_removed
    /\ UNCHANGED <<selected_id_, on_value_changed_, rm_stack, rm_pre, draw>>

\* g_next_id is static: the constructor and AddItem of every other TreeView
\* of the process draw their ids from it too. Their Items are in their own
\* Impl; what they share with the TreeView modelled is the counter alone.
OtherTreeViewId ==
    /\ CanCall
    /\ g_next_id < MaxIds
    /\ LET id == NextId IN
        /\ g_next_id' = g_next_id + 1
        /\ issued' = Append(issued, id)
    /\ added' = NoAdd
    /\ UNCHANGED root_removed
    /\ UNCHANGED <<constructed, items, id2item_, selected_id_,
                   on_value_changed_, rm_stack, rm_pre, draw>>

\* TreeView::GetRootItem
GetRootItem == items[RootAddr].id

\* A parent lookup that always ends at the root
AddItemParentRoot(parent_id) == RootAddr

\* The parent AddItem attaches to: id2item_.find(parent_id), else &root_.
AddItemParent(parent_id) ==
    IF parent_id \in DOMAIN id2item_ THEN id2item_[parent_id] ELSE RootAddr

\* TreeView::AddItem
AddItem(parent_id, text) ==
    /\ CanCall
    /\ constructed
    /\ g_next_id < MaxIds
    /\ LET id == NextId
           parent == AddItemParent(parent_id)
           a == NewAddr
       IN
        /\ g_next_id' = g_next_id + 1
        /\ items' = (a :> Item(id, ItemText(text, id), parent))
                     @@ [items EXCEPT ![parent].children = Append(@, a)]
        /\ id2item_' = (id :> a) @@ id2item_
        /\ issued' = Append(issued, id)
    /\ added' = [parent_id |-> parent_id, id |-> NextId]
    /\ UNCHANGED root_removed
    /\ UNCHANGED <<constructed, selected_id_, on_value_changed_, rm_stack,
                   rm_pre, draw>>

Range(seq) == {seq[i] : i \in 1..Len(seq)}

\* The addresses reached from the ones in S by following children in its
RECURSIVE ReachFrom(_, _)
ReachFrom(its, S) ==
    LET T == S \cup {c \in ListAddrs :
                        \E a \in S \cap DOMAIN its : c \in Range(its[a].children)}
    IN IF T = S THEN S ELSE ReachFrom(its, T)

\* The addresses of a and of everything below it in its: what ~Item
\* destroys, the children list being owned by the Item.
Subtree(its, a) == ReachFrom(its, {a})

\* A lookup table that forgets to erase
EraseNothing(m, k) == m

\* std::unordered_map::erase
Erase(m, k) == [x \in DOMAIN m \ {k} |-> m[x]]

\* What RemoveItem(item_id) does on entry, called from outside or from the
\* frame below: find the id; when it is there, take the Item it maps to,
\* erase the entry and go on in a new frame; when it is not, return at once.
RemoveItemEnter(item_id) ==
    IF item_id \in DOMAIN id2item_
    THEN /\ id2item_' = Erase(id2item_, item_id)
         /\ rm_stack' = Append(rm_stack,
                [item |-> id2item_[item_id], item_id |-> item_id])
    ELSE UNCHANGED <<id2item_, rm_stack>>

\* TreeView::RemoveItem, the call from outside
RemoveItem(item_id) ==
    /\ CanCall
    /\ constructed
    /\ RemoveItemEnter(item_id)
    /\ rm_pre' = IF item_id \in DOMAIN id2item_
                 THEN [item_id |-> item_id, items |-> items,
                       id2item |-> id2item_]
                 ELSE NoSnap
    /\ added' = NoAdd
    /\ root_removed' = (root_removed \/ item_id = items[RootAddr].id)
    /\ UNCHANGED <<g_next_id, constructed, items, selected_id_,
                   on_value_changed_, draw, issued>>

\* The frame on top of the RemoveItem call stack
RmTop == rm_stack[Len(rm_stack)]

\* The loop replaced by item->children.clear(): the nodes below the Item are
\* destroyed and their entries stay in id2item_.
RemoveItemChildClear ==
    /\ rm_stack # <<>>
    /\ items[RmTop.item].children # <<>>
    /\ LET below == Subtree(items, RmTop.item) \ {RmTop.item}
       IN items' = [a \in DOMAIN items \ below |->
                        IF a = RmTop.item
                        THEN [items[a] EXCEPT !.children = <<>>] ELSE items[a]]
    /\ UNCHANGED <<g_next_id, constructed, id2item_, selected_id_,
                   on_value_changed_, rm_stack, rm_pre, draw, issued, added,
                   root_removed>>

\* A loop that removes the last child first
RemoveItemChildBack ==
    /\ rm_stack # <<>>
    /\ LET item == items[RmTop.item]
       IN /\ item.children # <<>>
          /\ RemoveItemEnter(items[item.children[Len(item.children)]].id)
    /\ UNCHANGED <<added, root_removed>>
    /\ UNCHANGED <<g_next_id, constructed, items, selected_id_,
                   on_value_changed_, rm_pre, draw, issued>>

\* TreeView::RemoveItem, one turn of  while (!item->children.empty())
\*     RemoveItem(item->children.front().id);
RemoveItemChild ==
    /\ rm_stack # <<>>
    /\ LET item == items[RmTop.item]
       IN /\ item.children # <<>>
          /\ RemoveItemEnter(items[Head(item.children)].id)
    /\ UNCHANGED <<added, root_removed>>
    /\ UNCHANGED <<g_next_id, constructed, items, selected_id_,
                   on_value_changed_, rm_pre, draw, issued>>

\* A search that stops at the front of the list whatever its id
FirstWithIdFront(its, children, item_id) == IF children = <<>> THEN 0 ELSE 1

\* The position of the first sibling whose id is item_id, 0 when none is
FirstWithId(its, children, item_id) ==
    LET hits == {i \in 1..Len(children) : its[children[i]].id = item_id}
    IN IF hits = {} THEN 0 ELSE CHOOSE i \in hits : \A j \in hits : i <= j

\* An unlink that leaves the list as it is
UnlinkNothing(its, parent, i) == its

\* An erase that moves the last element into the place of the erased one
EraseAtSwap(seq, i) ==
    IF i = Len(seq) THEN SubSeq(seq, 1, Len(seq) - 1)
    ELSE [SubSeq(seq, 1, Len(seq) - 1) EXCEPT ![i] = seq[Len(seq)]]

\* std::list::erase at position i
EraseAt(seq, i) == SubSeq(seq, 1, i - 1) \o SubSeq(seq, i + 1, Len(seq))

\* items with the list node at position i of parent's children destroyed
Unlink(its, parent, i) ==
    LET gone == its[parent].children[i]
        kept == [a \in DOMAIN its \ {gone} |-> its[a]]
    IN [kept EXCEPT ![parent].children = EraseAt(@, i)]

\* A return from RemoveItem that resets the selection when the Item removed
\* is the selected one
RemoveItemUnlinkClearing ==
    /\ rm_stack # <<>>
    /\ LET item == items[RmTop.item]
           i == IF item.parent = Null THEN 0
                ELSE FirstWithId(items, items[item.parent].children,
                                 RmTop.item_id)
       IN /\ item.children = <<>>
          /\ items' = IF i = 0 THEN items
                      ELSE Unlink(items, item.parent, i)
    /\ selected_id_' = IF selected_id_ = RmTop.item_id THEN NoId
                       ELSE selected_id_
    /\ rm_stack' = SubSeq(rm_stack, 1, Len(rm_stack) - 1)
    /\ rm_pre' = IF Len(rm_stack) = 1 THEN NoSnap ELSE rm_pre
    /\ UNCHANGED <<added, root_removed>>
    /\ UNCHANGED <<g_next_id, constructed, id2item_, on_value_changed_, draw,
                   issued>>

\* TreeView::RemoveItem, after the loop: the Item has no child left, remove
\* it from its parent's list of children and return.
RemoveItemUnlink ==
    /\ rm_stack # <<>>
    /\ LET item == items[RmTop.item]
           i == IF item.parent = Null THEN 0
                ELSE FirstWithId(items, items[item.parent].children,
                                 RmTop.item_id)
       IN /\ item.children = <<>>
          /\ items' = IF i = 0 THEN items
                      ELSE Unlink(items, item.parent, i)
    /\ rm_stack' = SubSeq(rm_stack, 1, Len(rm_stack) - 1)
    /\ rm_pre' = IF Len(rm_stack) = 1 THEN NoSnap ELSE rm_pre
    /\ UNCHANGED <<added, root_removed>>
    /\ UNCHANGED <<g_next_id, constructed, id2item_, selected_id_,
                   on_value_changed_, draw, issued>>

\* A GetItemChildren that lists the children of the Item itself
GetItemChildrenOwn(parent_id) ==
    IF parent_id \in DOMAIN id2item_
    THEN LET own == items[id2item_[parent_id]].children
         IN [i \in 1..Len(own) |-> items[own[i]].id]
    ELSE <<>>

\* TreeView::GetItemChildren
GetItemChildren(parent_id) ==
    IF parent_id \in DOMAIN id2item_
    THEN LET parent == items[id2item_[parent_id]].parent
         IN IF parent # Null
            THEN [i \in 1..Len(items[parent].children) |->
                        items[items[parent].children[i]].id]
            ELSE <<>>
    ELSE <<>>

\* A getter that takes the root's id to be 0
GetSelectedItemIdZero == IF selected_id_ < 0 THEN 0 ELSE selected_id_

\* TreeView::GetSelectedItemId
GetSelectedItemId ==
    IF selected_id_ < 0 THEN items[RootAddr].id ELSE selected_id_

\* A setter that keeps the selection when the id does not resolve
SetSelectedItemIdValidating(item_id) ==
    /\ CanCall
    /\ constructed
    /\ selected_id_' = IF item_id \in DOMAIN id2item_ THEN item_id
                       ELSE selected_id_
    /\ added' = NoAdd
    /\ UNCHANGED <<g_next_id, constructed, items, id2item_, on_value_changed_,
                   rm_stack, rm_pre, draw, issued, root_removed>>

\* TreeView::SetSelectedItemId
SetSelectedItemId(item_id) ==
    /\ CanCall
    /\ constructed
    /\ selected_id_' = item_id
    /\ added' = NoAdd
    /\ UNCHANGED root_removed
    /\ UNCHANGED <<g_next_id, constructed, items, id2item_, on_value_changed_,
                   rm_stack, rm_pre, draw, issued>>

\* TreeView::SetOnValueChanged
SetOnValueChanged(registered) ==
    /\ CanCall /\ draw.phase = "idle"
    /\ constructed
    /\ on_value_changed_' = registered
    /\ added' = NoAdd
    /\ UNCHANGED root_removed
    /\ UNCHANGED <<g_next_id, constructed, items, id2item_, selected_id_,
                   rm_stack, rm_pre, draw, issued>>

\* The frames of the walk without the ones that have no Item left to draw:
\* a DrawItem call whose loop over the children is over returns.
Unwind(stack) ==
    LET live == {i \in 1..Len(stack) : \E j \in i..Len(stack) : stack[j] # <<>>}
    IN SubSeq(stack, 1, Cardinality(live))

\* A walk that starts at the root itself
DrawBeginAtRoot ==
    /\ rm_stack = <<>>
    /\ draw.phase = "idle"
    /\ constructed
    /\ draw' = [IdleDraw EXCEPT !.phase = "walk",
                                !.stack = <<<<RootAddr>>>>,
                                !.start_sel = selected_id_]
    /\ added' = NoAdd
    /\ UNCHANGED root_removed
    /\ UNCHANGED <<g_next_id, constructed, items, id2item_, selected_id_,
                   on_value_changed_, rm_stack, rm_pre, issued>>

\* TreeView::Draw, up to the loop over root_.children. A frame of the walk
\* is the rest of the children list its loop is going through.
DrawBegin ==
    /\ rm_stack = <<>>
    /\ draw.phase = "idle"
    /\ constructed
    /\ draw' = [IdleDraw EXCEPT !.phase = "walk",
                                !.stack = Unwind(<<items[RootAddr].children>>),
                                !.start_sel = selected_id_]
    /\ added' = NoAdd
    /\ UNCHANGED root_removed
    /\ UNCHANGED <<g_next_id, constructed, items, id2item_, selected_id_,
                   on_value_changed_, rm_stack, rm_pre, issued>>

\* A click test that leaves out item.children.empty()
ActivatedAny(item, clicked) == clicked

\* if (ImGui::IsItemClicked() && item.children.empty()), in both branches
Activated(item, clicked) == clicked /\ item.children = <<>>

\* A comparison with the selection the pass started with
HighlightPassStart(item) == item.id = draw.start_sel

\* if (item.id == impl_->selected_id_): the selection rectangle is drawn
Highlight(item) == item.id = selected_id_

\* A DrawItem that calls the listener as soon as a leaf is clicked
DrawItemNotifying(open, clicked) ==
    /\ draw.phase = "walk"
    /\ draw.stack # <<>>
    /\ LET n == Len(draw.stack)
           a == Head(draw.stack[n])
           item == items[a]
           rest == [draw.stack EXCEPT ![n] = Tail(@)]
       IN /\ selected_id_' = IF Activated(item, clicked) THEN item.id
                             ELSE selected_id_
          /\ draw' = [draw EXCEPT
                !.highlighted = IF Highlight(item) THEN @ \cup {a} ELSE @,
                !.new_selection = IF Activated(item, clicked) THEN a ELSE @,
                !.calls = IF Activated(item, clicked) /\ on_value_changed_
                          THEN @ + 1 ELSE @,
                !.visited = Append(@, a),
                !.closed = IF ~open /\ item.children # <<>> THEN @ \cup {a}
                           ELSE @,
                !.clicked = IF clicked THEN @ \cup {a} ELSE @,
                !.leaf_clicked = @ \/ (clicked /\ items[a].children = <<>>),
                !.stack = Unwind(IF open THEN Append(rest, item.children)
                                 ELSE rest)]
    /\ UNCHANGED <<added, root_removed>>
    /\ UNCHANGED <<g_next_id, constructed, items, id2item_, on_value_changed_,
                   rm_stack, rm_pre, issued>>

\* A DrawItem that keeps the first leaf activated in the pass
DrawItemFirstWins(open, clicked) ==
    /\ draw.phase = "walk"
    /\ draw.stack # <<>>
    /\ LET n == Len(draw.stack)
           a == Head(draw.stack[n])
           item == items[a]
           rest == [draw.stack EXCEPT ![n] = Tail(@)]
           first == Activated(item, clicked) /\ draw.new_selection = Null
       IN /\ selected_id_' = IF first THEN item.id ELSE selected_id_
          /\ draw' = [draw EXCEPT
                !.highlighted = IF Highlight(item) THEN @ \cup {a} ELSE @,
                !.new_selection = IF first THEN a ELSE @,
                !.visited = Append(@, a),
                !.closed = IF ~open /\ item.children # <<>> THEN @ \cup {a}
                           ELSE @,
                !.clicked = IF clicked THEN @ \cup {a} ELSE @,
                !.leaf_clicked = @ \/ (clicked /\ items[a].children = <<>>),
                !.stack = Unwind(IF open THEN Append(rest, item.children)
                                 ELSE rest)]
    /\ UNCHANGED <<added, root_removed>>
    /\ UNCHANGED <<g_next_id, constructed, items, id2item_, on_value_changed_,
                   rm_stack, rm_pre, issued>>

\* The DrawItem lambda on the next Item of the innermost loop. open is what
\* ImGui::TreeNodeEx returns, clicked what ImGui::IsItemClicked returns.
DrawItem(open, clicked) ==
    /\ draw.phase = "walk"
    /\ draw.stack # <<>>
    /\ LET n == Len(draw.stack)
           a == Head(draw.stack[n])
           item == items[a]
           rest == [draw.stack EXCEPT ![n] = Tail(@)]
       IN /\ selected_id_' = IF Activated(item, clicked) THEN item.id
                             ELSE selected_id_
          /\ draw' = [draw EXCEPT
                !.highlighted = IF Highlight(item) THEN @ \cup {a} ELSE @,
                !.new_selection = IF Activated(item, clicked) THEN a ELSE @,
                !.visited = Append(@, a),
                !.closed = IF ~open /\ item.children # <<>> THEN @ \cup {a}
                           ELSE @,
                !.clicked = IF clicked THEN @ \cup {a} ELSE @,
                !.leaf_clicked = @ \/ (clicked /\ items[a].children = <<>>),
                !.stack = Unwind(IF open THEN Append(rest, item.children)
                                 ELSE rest)]
    /\ UNCHANGED <<added, root_removed>>
    /\ UNCHANGED <<g_next_id, constructed, items, id2item_, on_value_changed_,
                   rm_stack, rm_pre, issued>>

\* A dispatch that calls the listener only when the pass has changed what
\* GetSelectedItemId() returns
DrawEndOnChange ==
    /\ draw.phase = "walk"
    /\ draw.stack = <<>>
    /\ draw' = IF /\ draw.new_selection # Null
                  /\ on_value_changed_
                  /\ GetSelectedItemId #
                        (IF draw.start_sel < 0 THEN GetRootItem ELSE draw.start_sel)
               THEN [IdleDraw EXCEPT
                        !.phase = "listener",
                        !.stack = draw.stack,
                        !.leaf_clicked = draw.leaf_clicked,
                        !.calls = draw.calls + 1,
                        !.args = <<items[draw.new_selection].text,
                                   items[draw.new_selection].id>>]
               ELSE IdleDraw
    /\ UNCHANGED <<added, root_removed>>
    /\ UNCHANGED <<g_next_id, constructed, items, id2item_, selected_id_,
                   on_value_changed_, rm_stack, rm_pre, issued>>

\* TreeView::Draw after the walk: if (new_selection) the listener, when one
\* is registered, is called with the Item's text and id; else Draw returns.
DrawEnd ==
    /\ draw.phase = "walk"
    /\ draw.stack = <<>>
    /\ draw' = IF draw.new_selection # Null /\ on_value_changed_
               THEN [IdleDraw EXCEPT
                        !.phase = "listener",
                        !.stack = draw.stack,
                        !.leaf_clicked = draw.leaf_clicked,
                        !.calls = draw.calls + 1,
                        !.args = <<items[draw.new_selection].text,
                                   items[draw.new_selection].id>>]
               ELSE IdleDraw
    /\ UNCHANGED <<added, root_removed>>
    /\ UNCHANGED <<g_next_id, constructed, items, id2item_, selected_id_,
                   on_value_changed_, rm_stack, rm_pre, issued>>

\* The listener returns, and Draw returns REDRAW.
ListenerReturn ==
    /\ rm_stack = <<>>
    /\ draw.phase = "listener"
    /\ draw' = IdleDraw
    /\ added' = NoAdd
    /\ UNCHANGED root_removed
    /\ UNCHANGED <<g_next_id, constructed, items, id2item_, selected_id_,
                   on_value_changed_, rm_stack, rm_pre, issued>>

Next ==
    \/ OtherTreeViewId
    \/ DrawBegin
    \/ \E open \in BOOLEAN, clicked \in BOOLEAN : DrawItem(open, clicked)
    \/ DrawEnd
    \/ ListenerReturn
    \/ Construct
    \/ \E p \in IdInputs, t \in Labels : AddItem(p, t)
    \/ \E i \in IdInputs : SetSelectedItemId(i)
    \/ \E b \in BOOLEAN : SetOnValueChanged(b)
    \/ \E i \in IdInputs : RemoveItem(i)
    \/ RemoveItemChild
    \/ RemoveItemUnlink

(***************************************************************************)
(* What the claims are stated with                                         *)
(***************************************************************************)
Reachable == ReachFrom(items, {RootAddr})

\* The Items that have a among their children, and how often p has it
ParentsOf(a) == {p \in DOMAIN items : a \in Range(items[p].children)}
Occurrences(a, p) ==
    Cardinality({i \in 1..Len(items[p].children) : items[p].children[i] = a})

AtBoundary == constructed /\ rm_stack = <<>>

\* C1. Structural integrity: at every operation boundary, RemoveItem never
\* having been called with the root's id, (a) the keys of id2item_ are
\* exactly the Items reachable from the root, which are all the Items there
\* are, (b) every reachable Item but the root has one parent, which has it
\* once among its children, and the root has none, (c) every entry maps an
\* id to the Item that carries it.
StructuralIntegrity ==
    (AtBoundary /\ ~root_removed) =>
        /\ Reachable = DOMAIN items
        /\ {id2item_[k] : k \in DOMAIN id2item_} = Reachable
        /\ Cardinality(DOMAIN id2item_) = Cardinality(Reachable)
        /\ \A k \in DOMAIN id2item_ : items[id2item_[k]].id = k
        /\ items[RootAddr].parent = Null /\ ParentsOf(RootAddr) = {}
        /\ \A a \in Reachable \ {RootAddr} :
                /\ ParentsOf(a) = {items[a].parent}
                /\ Occurrences(a, items[a].parent) = 1

\* C1 witness: after a removal (an address was given out again), a child
\* of the root has a child of its own.
StructuralIntegrityWitness ==
    /\ AtBoundary /\ ~root_removed
    /\ \E a \in Range(items[RootAddr].children) : items[a].children # <<>>
    /\ \E a, b \in DOMAIN items \ {RootAddr} : a < b /\ items[a].id > items[b].id

\* C2. The root is never removed: whatever public operations are called,
\* RemoveItem(GetRootItem()) among them, the root's id resolves in id2item_,
\* and that call leaves the root's children where they were.
RootNeverRemoved ==
    constructed =>
        /\ GetRootItem \in DOMAIN id2item_
        /\ (rm_stack # <<>> /\ rm_pre.item_id = GetRootItem) =>
                items[RootAddr].children = rm_pre.items[RootAddr].children

\* C3. Recursive removal completeness: when RemoveItem(x) of a live Item x
\* other than the root returns, the ids gone from id2item_ are those of x
\* and of its N descendants, N+1 of them, and no other entry has changed; x
\* is not among the children of its former parent; and every Item outside
\* the subtree is as it was, but for x dropped from its parent's children.
RemovalComplete ==
    [][(Len(rm_stack) = 1 /\ rm_stack' = <<>> /\ rm_pre.item_id # GetRootItem) =>
        LET pre == rm_pre.items
            x == rm_pre.id2item[rm_pre.item_id]
            sub == Subtree(pre, x)
            ids == {pre[a].id : a \in sub}
            par == pre[x].parent
        IN /\ Cardinality(ids) = Cardinality(sub)
           /\ DOMAIN rm_pre.id2item \ DOMAIN id2item_' = ids
           /\ Cardinality(DOMAIN id2item_') =
                    Cardinality(DOMAIN rm_pre.id2item) - Cardinality(sub)
           /\ \A k \in DOMAIN id2item_' :
                    k \in DOMAIN rm_pre.id2item /\ id2item_'[k] = rm_pre.id2item[k]
           /\ DOMAIN items' = DOMAIN pre \ sub
           /\ x \notin Range(items'[par].children)
           /\ \A c \in Range(items'[par].children) : items'[c].id # rm_pre.item_id
           /\ \A a \in DOMAIN items' :
                    items'[a] = IF a = par
                                THEN [pre[a] EXCEPT !.children =
                                        SelectSeq(@, LAMBDA c : c # x)]
                                ELSE pre[a]
       ]_vars

\* C3 witness: RemoveItem of an Item below the root that had descendants,
\* which are gone, is about to return; the parent has another child.
RemovalCompleteWitness ==
    /\ Len(rm_stack) = 1
    /\ rm_pre.item_id # GetRootItem
    /\ items[RmTop.item].children = <<>>
    /\ rm_pre.items[RmTop.item].children # <<>>
    /\ Len(items[items[RmTop.item].parent].children) = 2

\* C4. Identifier uniqueness: every id handed out, to this TreeView's root
\* and Items or to another TreeView, is greater than all handed out before.
IdsStrictlyIncrease ==
    \A i, j \in 1..Len(issued) : i < j => issued[i] < issued[j]

\* C4 witness: all the ids of the model are handed out, and one of them
\* went to an Item added after another Item was removed: its list node has
\* the address of a node allocated before that of an Item with a lower id.
IdsStrictlyIncreaseWitness ==
    /\ AtBoundary
    /\ Len(issued) = MaxIds
    /\ \E a, b \in DOMAIN items \ {RootAddr} :
            a < b /\ items[a].id > items[b].id /\ items[a].id = issued[Len(issued)]

\* C5. AddItem places the Item: right after AddItem(parent_id, ..) returned
\* id, id is new, the last id handed out, and resolves to an Item carrying
\* it; that Item is the last child of the Item parent_id resolves to and of
\* no other, or of the root when parent_id does not resolve (parent_id = id
\* did not resolve when the call was made).
AddItemPlacement ==
    (added # NoAdd) =>
        LET id == added.id
            p == added.parent_id
            par == IF p \in DOMAIN id2item_ /\ p # id
                   THEN id2item_[p] ELSE RootAddr
        IN /\ id = issued[Len(issued)]
           /\ id \notin Range(SubSeq(issued, 1, Len(issued) - 1))
           /\ id \in DOMAIN id2item_
           /\ id2item_[id] \in DOMAIN items
           /\ items[id2item_[id]].id = id
           /\ items[id2item_[id]].parent = par
           /\ items[id2item_[id]].children = <<>>
           /\ items[par].children # <<>>
           /\ items[par].children[Len(items[par].children)] = id2item_[id]
           /\ ParentsOf(id2item_[id]) = {par}

\* C5 witness: AddItem has been called with an id that was handed out and
\* does not resolve (a removed Item's, or another TreeView's), and the new
\* Item is the last of two children of the root.
AddItemPlacementWitness ==
    /\ added # NoAdd
    /\ added.parent_id \in Range(issued)
    /\ added.parent_id \notin DOMAIN id2item_
    /\ added.parent_id # added.id
    /\ added.parent_id > GetRootItem
    /\ Len(items[RootAddr].children) = 2
    /\ items[items[RootAddr].children[2]].id = added.id

\* C6. Deferred notification: in a Draw pass the listener is not called
\* while the walk is going on; when it is called every frame of the walk
\* has returned, a leaf was clicked in the pass, and it is the only call of
\* the pass.
DeferredNotification ==
    /\ draw.calls <= 1
    /\ draw.phase = "walk" => draw.calls = 0
    /\ draw.phase = "listener" =>
            draw.stack = <<>> /\ draw.calls = 1 /\ draw.leaf_clicked

\* C6 witness: the listener, called by Draw, is removing the Item it was
\* called for.
DeferredNotificationWitness ==
    /\ draw.phase = "listener"
    /\ rm_stack # <<>>
    /\ rm_pre.item_id = draw.args[2]

\* Whether the i-th Item drawn in the pass was a leaf that was clicked
ClickedLeaf(i) ==
    /\ draw.visited[i] \in draw.clicked
    /\ items[draw.visited[i]].children = <<>>

\* selected_id_ as it was when the i-th Item of the pass was drawn: the id
\* of the leaf clicked last before it, the value the pass started with when
\* there is none.
SelectedAt(i) ==
    LET before == {j \in 1..(i - 1) : ClickedLeaf(j)}
    IN IF before = {} THEN draw.start_sel
       ELSE items[draw.visited[CHOOSE j \in before : \A k \in before : k <= j]].id

SelectedAtStart == IF draw.start_sel < 0 THEN GetRootItem ELSE draw.start_sel

\* C8. Leaf-only activation: as long as the clicks of a pass were all on
\* Items that have children, GetSelectedItemId() returns what it returned
\* when the pass started and no selection is pending; the listener is called
\* only in a pass with a click on an Item that has none; the Item recorded
\* as the new selection is a clicked Item without children.
LeafOnlyActivation ==
    /\ (draw.phase = "walk" /\ ~draw.leaf_clicked) =>
            /\ GetSelectedItemId = SelectedAtStart
            /\ selected_id_ = draw.start_sel
            /\ draw.new_selection = Null
    /\ draw.phase = "listener" => draw.leaf_clicked
    /\ (draw.phase = "walk" /\ draw.new_selection # Null) =>
            /\ draw.new_selection \in draw.clicked
            /\ items[draw.new_selection].children = <<>>
            /\ selected_id_ = items[draw.new_selection].id

\* C8 witness: a pass with a listener registered has drawn every Item, an
\* Item with a child was clicked, and no leaf was.
LeafOnlyActivationWitness ==
    /\ draw.phase = "walk"
    /\ draw.stack = <<>>
    /\ on_value_changed_
    /\ ~draw.leaf_clicked
    /\ \E a \in draw.clicked : items[a].children # <<>>
    /\ selected_id_ # NoId

\* C9 as stated. Round trip: for every id but -1, resolving or not,
\* SetSelectedItemId(id) and then GetSelectedItemId() returns id.
SetGetRoundTrip ==
    [][\A id \in IdInputs \ {NoId} :
            SetSelectedItemId(id) => GetSelectedItemId' = id]_vars

\* C9 as amended. Round trip for every id that is not negative, resolving
\* or not.
SetGetRoundTripNonNegative ==
    [][\A id \in IdInputs :
            (id >= 0 /\ SetSelectedItemId(id)) => GetSelectedItemId' = id]_vars

\* C9 witness: the selection is an id that was never handed out, which only
\* SetSelectedItemId can have stored, and GetSelectedItemId() returns it.
SetGetRoundTripWitness ==
    /\ constructed
    /\ selected_id_ = MaxIds
    /\ selected_id_ \notin DOMAIN id2item_
    /\ GetSelectedItemId = MaxIds

\* C10. Default selection: while selected_id_ is -1 (never set, or set back
\* to -1) GetSelectedItemId() returns what GetRootItem() returns, the id
\* this TreeView's constructor was given, which resolves to root_ as long as
\* RemoveItem has not been called with it.
DefaultSelection ==
    (constructed /\ selected_id_ = NoId) =>
        /\ GetSelectedItemId = GetRootItem
        /\ GetSelectedItemId \in Range(issued)
        /\ ~root_removed =>
                /\ GetSelectedItemId \in DOMAIN id2item_
                /\ id2item_[GetSelectedItemId] = RootAddr

\* C10 witness: a TreeView constructed after another one took id 0, with
\* Items added, and no selection.
DefaultSelectionWitness ==
    /\ constructed
    /\ selected_id_ = NoId
    /\ GetRootItem > 0
    /\ items[RootAddr].children # <<>>

\* The Items in the tree, the root apart, that carry id
LiveNonRoot(id) == {a \in Reachable \ {RootAddr} : items[a].id = id}

\* C11. GetItemChildren(id), whenever it can be called: for the id of a live
\* Item other than the root the ids of the children of the Item's parent, in
\* their order (the Item's siblings and itself); the empty sequence for an
\* id that does not resolve and for the root's.
ItemChildrenAreSiblings ==
    (constructed /\ CanCall) =>
        \A id \in IdInputs :
            IF LiveNonRoot(id) # {}
            THEN \A a \in LiveNonRoot(id) : \A p \in ParentsOf(a) :
                    /\ Len(GetItemChildren(id)) = Len(items[p].children)
                    /\ \A i \in 1..Len(items[p].children) :
                            GetItemChildren(id)[i] = items[items[p].children[i]].id
                    /\ id \in Range(GetItemChildren(id))
            ELSE GetItemChildren(id) = <<>>

\* C11 witness: an Item with a child and a sibling, whose GetItemChildren
\* has the sibling and not the child.
ItemChildrenAreSiblingsWitness ==
    /\ constructed /\ CanCall
    /\ \E id \in DOMAIN id2item_ :
            /\ Len(GetItemChildren(id)) = 2
            /\ items[id2item_[id]].children # <<>>
            /\ GetItemChildren(GetRootItem) = <<>>

ListenerGetsLabel ==
    draw.phase = "listener" =>
        /\ draw.args[2] \in Range(issued)
        /\ draw.args[1] \in Labels

\* C14. RemoveItem terminates: in every turn of its loop the id of the
\* first child resolves, so the turn removes that child, and every call of
\* RemoveItem, whatever was called before it (RemoveItem with the root's id
\* or with ids that do not resolve included), returns.
RemoveItemTerminates ==
    /\ []((rm_stack # <<>> /\ items[RmTop.item].children # <<>>) =>
            items[Head(items[RmTop.item].children)].id \in DOMAIN id2item_)
    /\ (rm_stack # <<>>) ~> (rm_stack = <<>>)

\* C14 witness: after RemoveItem was called with the root's id, RemoveItem
\* of an Item added since is in its loop, a child still to be removed.
RemoveItemTerminatesWitness ==
    /\ root_removed
    /\ rm_stack # <<>>
    /\ rm_pre.item_id # GetRootItem
    /\ GetRootItem \notin DOMAIN rm_pre.id2item
    /\ items[RmTop.item].children # <<>>

\* The Items of the frames of the RemoveItem call in progress
RmFrameItems == {rm_stack[i].item : i \in 1..Len(rm_stack)}

\* seq is what is left of whole after some of its first elements were taken
IsSuffix(seq, whole) ==
    /\ Len(seq) <= Len(whole)
    /\ seq = SubSeq(whole, Len(whole) - Len(seq) + 1, Len(whole))

\* C15. Removal ordering: while RemoveItem(x) is in progress, the id of x
\* and of every Item whose removal is in progress does not resolve, the
\* Items themselves being still there and still among the children of
\* their parents; the frame above a frame removes the first child of that
\* frame's Item; the children an Item in progress has left are the last of
\* those it had, the ones before them being gone with all that was below
\* them, from the lookup table as well; every other Item is untouched and
\* its id resolves as before. An Item is destroyed only by the frame on
\* top, one at a time, when it has no child left.
RemovalOrdering ==
    /\ [](rm_stack # <<>> =>
            LET pre == rm_pre.items IN
            /\ rm_stack[1].item_id = rm_pre.item_id
            /\ \A i \in 1..Len(rm_stack) :
                LET f == rm_stack[i] IN
                /\ f.item_id \notin DOMAIN id2item_
                /\ f.item \in DOMAIN items
                /\ items[f.item].id = f.item_id
                /\ items[f.item].parent # Null =>
                        f.item \in Range(items[items[f.item].parent].children)
                /\ IsSuffix(items[f.item].children, pre[f.item].children)
                /\ \A c \in Range(pre[f.item].children) \
                            Range(items[f.item].children) :
                        \A d \in Subtree(pre, c) :
                            /\ d \notin DOMAIN items
                            /\ pre[d].id \notin DOMAIN id2item_
                /\ i < Len(rm_stack) =>
                        rm_stack[i + 1].item = Head(items[f.item].children)
            /\ \A a \in DOMAIN items \ RmFrameItems :
                /\ a \in DOMAIN pre
                /\ items[a] = pre[a]
                /\ \A k \in DOMAIN rm_pre.id2item :
                        rm_pre.id2item[k] = a =>
                            k \in DOMAIN id2item_ /\ id2item_[k] = a)
    /\ [][(rm_stack # <<>> /\ items' # items) =>
            /\ items[RmTop.item].children = <<>>
            /\ DOMAIN items \ DOMAIN items' = {RmTop.item}
            /\ rm_stack' = SubSeq(rm_stack, 1, Len(rm_stack) - 1)]_vars

\* C15 witness: the removal of an Item that had two children has removed
\* the first one and is removing the second one.
RemovalOrderingWitness ==
    /\ Len(rm_stack) = 2
    /\ Len(rm_pre.items[rm_stack[1].item].children) = 2
    /\ Len(items[rm_stack[1].item].children) = 1
    /\ rm_stack[2].item = rm_pre.items[rm_stack[1].item].children[2]

\* C16. Sibling order is insertion order: the children of every Item are in
\* the order in which they were added, which is the order of their ids; and
\* a step changes the children of an Item that stays either by appending
\* one at the end or by taking one out, the others keeping their order.
SiblingOrder ==
    /\ [](\A p \in DOMAIN items :
            \A i, j \in 1..Len(items[p].children) :
                i < j => items[items[p].children[i]].id <
                         items[items[p].children[j]].id)
    /\ [][\A p \in DOMAIN items \cap DOMAIN items' :
            LET old == items[p].children
                new == items'[p].children
            IN \/ new = old
               \/ \E a \in ListAddrs : new = Append(old, a)
               \/ \E i \in 1..Len(old) :
                    new = SubSeq(old, 1, i - 1) \o SubSeq(old, i + 1, Len(old))
         ]_vars

\* C16 witness: an Item has two children left, a sibling added before
\* them having been removed (its address, lower than theirs, is free).
SiblingOrderWitness ==
    /\ AtBoundary
    /\ \E p \in DOMAIN items :
        /\ Len(items[p].children) = 2
        /\ \E a \in ListAddrs \ DOMAIN items :
                a # RootAddr /\ a < items[p].children[1]

\* The Items of list and what is below them, depth first, an Item before
\* its children, siblings in the order of the list, nothing below the
\* Items in closed
RECURSIVE PreOrder(_, _)
PreOrder(list, closed) ==
    IF list = <<>> THEN <<>>
    ELSE LET a == Head(list)
         IN <<a>> \o (IF a \in closed THEN <<>>
                      ELSE PreOrder(items[a].children, closed))
                  \o PreOrder(Tail(list), closed)

WalkDone == draw.phase = "walk" /\ draw.stack = <<>>

\* C17 as stated. Traversal coverage and order: when the walk of a Draw
\* pass is over, it has yielded every Item but the root once, depth first
\* and pre-order from the root's children, siblings in insertion order, and
\* not the root.
TraversalCoversAll ==
    WalkDone =>
        /\ draw.visited = PreOrder(items[RootAddr].children, {})
        /\ Range(draw.visited) = Reachable \ {RootAddr}
        /\ RootAddr \notin Range(draw.visited)

\* C17 amended. When the walk of a Draw pass is over, it has yielded, each
\* once, depth first and pre-order from the root's children, siblings in
\* insertion order, the Items other than the root that have no ancestor for
\* which TreeNodeEx returned false in the pass: nothing below such an Item is
\* yielded. The root is yielded at no point of the walk, and no Item twice.
TraversalCoversOpen ==
    /\ RootAddr \notin Range(draw.visited)
    /\ \A i, j \in 1..Len(draw.visited) :
            draw.visited[i] = draw.visited[j] => i = j
    /\ WalkDone =>
            draw.visited = PreOrder(items[RootAddr].children, draw.closed)

\* C17 witness: a walk is over in which an Item with children was reported
\* closed, and an Item after it was yielded.
TraversalCoversOpenWitness ==
    /\ WalkDone
    /\ \E i \in 1..Len(draw.visited) :
            draw.visited[i] \in draw.closed /\ i < Len(draw.visited)

\* C18. Traversal is structurally read-only: no step from the start of a
\* Draw pass to the call of the listener, or to the return of Draw when the
\* listener is not called, changes an Item (its id, text, parent, children),
\* the set of Items or the lookup table, whatever is clicked; of the state
\* of the TreeView such a step changes selected_id_ at most.
TraversalReadOnly ==
    [][(draw.phase = "walk" \/ draw'.phase = "walk") =>
            /\ items' = items
            /\ id2item_' = id2item_
            /\ on_value_changed_' = on_value_changed_
            /\ g_next_id' = g_next_id
      ]_vars

\* C18 witness: the walk of a pass is over in which a leaf was activated
\* and the selection is no longer the one the pass started with.
TraversalReadOnlyWitness ==
    /\ WalkDone
    /\ draw.leaf_clicked
    /\ draw.new_selection # Null
    /\ selected_id_ # draw.start_sel
    /\ Len(draw.visited) >= 2

\* The positions in the pass of the Items without children that were clicked
ActivatedAt ==
    {i \in 1..Len(draw.visited) :
        /\ draw.visited[i] \in draw.clicked
        /\ items[draw.visited[i]].children = <<>>}

\* The leaf activated last in the pass, Null when none was
LastActivated ==
    IF ActivatedAt = {} THEN Null
    ELSE draw.visited[CHOOSE i \in ActivatedAt : \A j \in ActivatedAt : j <= i]

\* C19. At the end of the walk, a leaf having been activated, selected_id_
\* is the id of the leaf activated last in the order of the walk, whether a
\* listener is registered or not; and when the listener is called, it is
\* called once, with the id of that leaf, which is what GetSelectedItemId()
\* returns at that moment and which resolves to an Item without children.
ListenerGetsCommittedLeaf ==
    [][DrawEnd =>
        /\ LastActivated # Null =>
                /\ selected_id_' = items[LastActivated].id
                /\ GetSelectedItemId' = items[LastActivated].id
                /\ ~on_value_changed_ => draw'.phase = "idle"
        /\ LastActivated = Null => selected_id_' = draw.start_sel
        /\ draw'.phase = "listener" =>
                /\ LastActivated # Null
                /\ draw'.calls = 1
                /\ draw'.args[2] = items[LastActivated].id
                /\ draw'.args[2] = GetSelectedItemId'
                /\ draw'.args[2] \in DOMAIN id2item_'
                /\ items'[id2item_'[draw'.args[2]]].children = <<>>
      ]_vars

\* C19 witness: the walk of a pass is over in which two leaves were
\* activated, a listener being registered.
ListenerGetsCommittedLeafWitness ==
    /\ WalkDone
    /\ on_value_changed_
    /\ Cardinality(ActivatedAt) >= 2

\* C20. AddItem and RemoveItem do not modify the selection: no step of
\* either changes selected_id_, and when RemoveItem returns having removed
\* the selected Item, alone or with an ancestor of it, GetSelectedItemId()
\* returns the id it returned before, which no longer resolves.
SelectionKeptByAddRemove ==
    [][(\/ \E p \in IdInputs, t \in Labels : AddItem(p, t)
        \/ \E i \in IdInputs : RemoveItem(i)
        \/ RemoveItemChild
        \/ RemoveItemUnlink) =>
            /\ selected_id_' = selected_id_
            /\ (/\ rm_stack # <<>> /\ rm_stack' = <<>>
                /\ GetSelectedItemId \in DOMAIN rm_pre.id2item
                /\ rm_pre.id2item[GetSelectedItemId] \in
                        Subtree(rm_pre.items, rm_pre.id2item[rm_pre.item_id]))
               => /\ GetSelectedItemId' = GetSelectedItemId
                  /\ GetSelectedItemId' \notin DOMAIN id2item_'
      ]_vars

\* C20 witness: RemoveItem of an ancestor of the selected Item has removed
\* the selected Item and is still in progress.
SelectionKeptByAddRemoveWitness ==
    /\ rm_stack # <<>>
    /\ selected_id_ \in DOMAIN rm_pre.id2item
    /\ selected_id_ # rm_pre.item_id
    /\ selected_id_ \notin DOMAIN id2item_
    /\ rm_pre.id2item[selected_id_] \notin DOMAIN items

Spec == Init /\ [][Next]_vars

\* A call in progress goes on: the statements of RemoveItem are executed
\* one after the other until it returns.
FairSpec == Spec /\ WF_vars(RemoveItemChild \/ RemoveItemUnlink)
====
